---- MODULE Spec2Model ----
(***************************************************************************)
(* The CRUD + pgvector + Ollama service of main.py as a state machine.     *)
(*                                                                         *)
(* The shared state is the two tables (items, documents) and their id      *)
(* sequences.  Every HTTP request runs in its own worker slot; a handler   *)
(* is cut at its blocking calls (the embedding call, the database round    *)
(* trip), so that requests interleave exactly where the code can be        *)
(* suspended.  A blocking call may succeed or raise; an exception leaves   *)
(* the handler at once (the code has no try/finally).                      *)
(*                                                                         *)
(* A vector is [len, comp]: its declared length and its leading two        *)
(* components, all further components being 0.  Distances are cosine       *)
(* distances in fixed point, in units of 1/Scale.                          *)
(***************************************************************************)
EXTENDS Integers, Sequences, FiniteSets, TLC

\* ----------------------------------------------------------------- bounds
NumReq == 2          \* worker slots, i.e. requests in flight at once
MaxDocs == 4         \* document ids handed out in Spec
MaxFewDocs == 2      \* document ids handed out in SpecConcurrent and SpecService
MaxItems == 1        \* item ids the sequence may hand out

\* -------------------------------------------------------- program constants
Dim == 768           \* Vector(768)
Limit == 3           \* .limit(3)
Scale == 100         \* resolution of float(distance)

Reqs == 1 .. NumReq

\* Request inputs: the texts, and the `k` of a search body (NoK: not given).
NoK == 0
Texts == {"cat", "dog", "fox"}
FewTexts == {"cat", "dog"}
OneText == "cat"
Ks == {NoK, 1, 4}
ItemNames == {"pen"}

NULL == "NULL"
NULLVEC == [len |-> 0, comp |-> <<0, 0>>]

VARIABLES items, documents, nextItemId, nextDocId,
          pc, op, arg, session, vector, found,
          embedCalls, insertCalls, snapshot, resp

vars == <<items, documents, nextItemId, nextDocId,
          pc, op, arg, session, vector, found,
          embedCalls, insertCalls, snapshot, resp>>

tables == <<items, documents, nextItemId, nextDocId>>


\* ------------------------------------------------------ embedding provider
\* embeddings.embed_query for the model's three texts: vectors of length Dim
\* of norm 5 ("dog" and "fox" are equally far from "cat").
Embed(text) ==
    [len |-> Dim,
     comp |-> CASE text = "cat" -> <<5, 0>>
                [] text = "dog" -> <<3, 4>>
                [] OTHER        -> <<3, -4>>]

\* What a call of the provider may hand back: the text's vector, or (another
\* model behind the same URL) a vector of another length.
EmbedReturns(text) ==
    {[Embed(text) EXCEPT !.len = n] : n \in {Dim - 1, Dim, Dim + 1}}

\* ------------------------------------------------------------ vector column
\* BindVector cutting or padding the value to the column's length.
BindVector_Pad(v) == [ok |-> TRUE, value |-> [v EXCEPT !.len = Dim]]

\* The bind of a value to a Vector(768) column or operand: a value of another
\* length is refused, a value of the right length is passed on as it is.
BindVector(v) == [ok |-> v.len = Dim, value |-> v]

Dot(a, b) == a.comp[1] * b.comp[1] + a.comp[2] * b.comp[2]

\* The length of a vector; the vectors of Embed have whole lengths above 0.
Norm(a) == CHOOSE n \in 0 .. Dot(a, a) : n * n = Dot(a, a)

\* CosineDistance giving the cosine itself.
CosineDistance_Similarity(a, q) ==
    (Scale * Dot(a, q)) \div (Norm(a) * Norm(q))

\* Document.embedding.cosine_distance(q): 1 - cos(a, q), in units of 1/Scale.
CosineDistance(a, q) ==
    (Scale * Norm(a) * Norm(q) - Scale * Dot(a, q)) \div (Norm(a) * Norm(q))

\* ---------------------------------------------------------------- records
NoArg == [text |-> "", k |-> NoK, id |-> 0]
NoResp == [status |-> "none", id |-> 0, rows |-> <<>>, items |-> {}]

Error(kind) == [NoResp EXCEPT !.status = kind]

NewItem(id, name, description) ==
    [id |-> id, name |-> name, description |-> description]

\* NewDocument leaving the embedding column for a later write.
NewDocument_NoEmbedding(id, content, v) ==
    [id |-> id, content |-> content, embedding |-> NULLVEC]

\* NewDocument under a fixed id in place of the sequence's next one.
NewDocument_FirstId(id, content, v) ==
    [id |-> 1, content |-> content, embedding |-> v]

\* Document(content=doc.content, embedding=vector), with the id of the INSERT.
NewDocument(id, content, v) ==
    [id |-> id, content |-> content, embedding |-> v]

\* Rollback keeping the content of the pending row.
Rollback_KeepsPending(docs, pending) ==
    docs \cup {[pending EXCEPT !.embedding = NULLVEC]}

\* The table after db.commit() raised: the transaction of the pending row is
\* rolled back as a whole.
Rollback(docs, pending) == docs

Ids(docs) == {d.id : d \in docs}

Min(a, b) == IF a <= b THEN a ELSE b

Range(s) == {s[i] : i \in 1 .. Len(s)}

\* OrderByDistanceLimit always asking for n rows.
OrderByDistanceLimit_NoMin(docs, q, n) ==
    LET dist(d) == CosineDistance(d.embedding, q)
    IN  {s \in [1 .. n -> docs] :
            /\ \A i, j \in 1 .. n : i < j => s[i] # s[j] /\ dist(s[i]) <= dist(s[j])
            /\ \A d \in docs \ Range(s) : \A i \in 1 .. n : dist(s[i]) <= dist(d)}

\* ORDER BY distance LIMIT n over the documents table.  The statement names
\* no second sort key, so rows at equal distance come in any order, and any
\* of them may be the ones the limit keeps.
OrderByDistanceLimit(docs, q, n) ==
    LET m == Min(n, Cardinality(docs))
        dist(d) == CosineDistance(d.embedding, q)
    IN  {s \in [1 .. m -> docs] :
            /\ \A i, j \in 1 .. m : i < j => s[i] # s[j] /\ dist(s[i]) <= dist(s[j])
            /\ \A d \in docs \ Range(s) : \A i \in 1 .. m : dist(s[i]) <= dist(d)}

\* The list the handler returns: id, content and float(distance) of each row.
Rows(results, q) ==
    [i \in 1 .. Len(results) |->
        [id |-> results[i].id,
         content |-> results[i].content,
         distance |-> CosineDistance(results[i].embedding, q)]]

\* ------------------------------------------------------------------- state
Init ==
    /\ items = {}
    /\ documents = {}
    /\ nextItemId = 1
    /\ nextDocId = 1
    /\ pc = [r \in Reqs |-> "idle"]
    /\ op = [r \in Reqs |-> "none"]
    /\ arg = [r \in Reqs |-> NoArg]
    /\ session = [r \in Reqs |-> "none"]
    /\ vector = [r \in Reqs |-> NULLVEC]
    /\ found = [r \in Reqs |-> {}]
    /\ embedCalls = [r \in Reqs |-> 0]
    /\ insertCalls = [r \in Reqs |-> 0]
    /\ snapshot = [r \in Reqs |-> {}]
    /\ resp = [r \in Reqs |-> NoResp]

\* The handler of slot r ends: with `closed` it ran db.close(), otherwise it
\* left (by return or by exception) with its session as it was.
Finish(r, response, closed) ==
    /\ pc' = [pc EXCEPT ![r] = "done"]
    /\ resp' = [resp EXCEPT ![r] = response]
    /\ session' = [session EXCEPT ![r] = IF closed THEN "closed" ELSE "open"]


\* ------------------------------------------------------------ item handlers
\* POST /items: add, commit, refresh, close in one round trip to the database.
create_item(r, name) ==
    /\ pc[r] = "idle"
    /\ op' = [op EXCEPT ![r] = "create_item"]
    /\ arg' = [arg EXCEPT ![r] = [NoArg EXCEPT !.text = name]]
    /\ \/ /\ items' = items \cup {NewItem(nextItemId, name, name)}
          /\ nextItemId' = nextItemId + 1
          /\ Finish(r, [NoResp EXCEPT !.status = "ok", !.id = nextItemId], TRUE)
       \/ /\ UNCHANGED <<items, nextItemId>>
          /\ Finish(r, Error("StorageError"), FALSE)
    /\ UNCHANGED <<documents, nextDocId, vector, found, embedCalls, insertCalls, snapshot>>

\* GET /items.
get_items(r) ==
    /\ pc[r] = "idle"
    /\ op' = [op EXCEPT ![r] = "get_items"]
    /\ \/ Finish(r, [NoResp EXCEPT !.status = "ok", !.items = items], TRUE)
       \/ Finish(r, Error("StorageError"), FALSE)
    /\ UNCHANGED <<tables, arg, vector, found, embedCalls, insertCalls, snapshot>>

\* DELETE /items/{item_id}, up to the lookup: db.query(Item).filter(...).first().
\* The `if not item` branch returns without db.close().
delete_item_select(r, item_id) ==
    /\ pc[r] = "idle"
    /\ op' = [op EXCEPT ![r] = "delete_item"]
    /\ arg' = [arg EXCEPT ![r] = [NoArg EXCEPT !.id = item_id]]
    /\ LET hit == {i \in items : i.id = item_id} IN
       \/ /\ hit # {}
          /\ found' = [found EXCEPT ![r] = hit]
          /\ pc' = [pc EXCEPT ![r] = "delete"]
          /\ session' = [session EXCEPT ![r] = "open"]
          /\ resp' = resp
       \/ /\ hit = {}
          /\ found' = found
          /\ Finish(r, Error("not_found"), FALSE)
       \/ /\ found' = found
          /\ Finish(r, Error("StorageError"), FALSE)
    /\ UNCHANGED <<tables, vector, embedCalls, insertCalls, snapshot>>

\* DELETE /items/{item_id}, from db.delete(item) on.
delete_item_commit(r) ==
    /\ pc[r] = "delete"
    /\ \/ /\ items' = items \ found[r]
          /\ Finish(r, [NoResp EXCEPT !.status = "ok"], TRUE)
       \/ /\ items' = items
          /\ Finish(r, Error("StorageError"), FALSE)
    /\ UNCHANGED <<documents, nextItemId, nextDocId, op, arg, vector, found,
                   embedCalls, insertCalls, snapshot>>

\* ---------------------------------------------------------- vector handlers
\* POST /vector/add, up to the return of embeddings.embed_query(doc.content).
add_document_embed(r, content) ==
    /\ pc[r] = "idle"
    /\ op' = [op EXCEPT ![r] = "add_document"]
    /\ arg' = [arg EXCEPT ![r] = [NoArg EXCEPT !.text = content]]
    /\ embedCalls' = [embedCalls EXCEPT ![r] = @ + 1]
    /\ \/ \E v \in EmbedReturns(content) :
            /\ vector' = [vector EXCEPT ![r] = v]
            /\ pc' = [pc EXCEPT ![r] = "insert"]
            /\ session' = [session EXCEPT ![r] = "open"]
            /\ resp' = resp
       \/ /\ vector' = vector
          /\ Finish(r, Error("EmbeddingError"), FALSE)
    /\ UNCHANGED <<tables, found, insertCalls, snapshot>>

\* add_document_commit with a second db.commit() after one that failed.
add_document_commit_Retry(r) ==
    /\ pc[r] = "insert"
    /\ LET bound == BindVector(vector[r]) IN
       \/ /\ ~bound.ok
          /\ insertCalls' = [insertCalls EXCEPT ![r] = @ + 1]
          /\ UNCHANGED <<documents, nextDocId>>
          /\ Finish(r, Error("DimensionError"), FALSE)
       \/ /\ bound.ok
          /\ \E attempts \in {1, 2} :
                insertCalls' = [insertCalls EXCEPT ![r] = @ + attempts]
          /\ documents' = documents \cup
                 {NewDocument(nextDocId, arg[r].text, bound.value)}
          /\ nextDocId' = nextDocId + 1
          /\ Finish(r, [NoResp EXCEPT !.status = "ok", !.id = nextDocId], TRUE)
       \/ /\ insertCalls' = [insertCalls EXCEPT ![r] = @ + 2]
          /\ UNCHANGED <<documents, nextDocId>>
          /\ Finish(r, Error("StorageError"), FALSE)
    /\ UNCHANGED <<items, nextItemId, op, arg, vector, found, embedCalls, snapshot>>

\* POST /vector/add, from Document(...) on: db.add, db.commit (the INSERT and
\* its COMMIT), db.refresh, db.close.  The commit first takes a connection
\* (the database may be out of reach whatever the vector is), then binds the
\* row's values, then sends the INSERT and the COMMIT.
add_document_commit(r) ==
    /\ pc[r] = "insert"
    /\ insertCalls' = [insertCalls EXCEPT ![r] = @ + 1]
    /\ LET bound == BindVector(vector[r]) IN
       \/ /\ ~bound.ok
          /\ UNCHANGED <<documents, nextDocId>>
          /\ Finish(r, Error("DimensionError"), FALSE)
       \/ /\ bound.ok
          /\ documents' = documents \cup
                 {NewDocument(nextDocId, arg[r].text, bound.value)}
          /\ nextDocId' = nextDocId + 1
          /\ Finish(r, [NoResp EXCEPT !.status = "ok", !.id = nextDocId], TRUE)
       \/ /\ documents' = Rollback(documents,
                 NewDocument(nextDocId, arg[r].text, vector[r]))
          /\ nextDocId' = nextDocId
          /\ Finish(r, Error("StorageError"), FALSE)
    /\ UNCHANGED <<items, nextItemId, op, arg, vector, found, embedCalls, snapshot>>

\* SearchQuery(BaseModel): the body's `query` is read, any other key dropped.
SearchQuery(body) == [query |-> body.text]

\* POST /vector/search, up to the return of embeddings.embed_query(payload.query).
search_document_embed(r, text, k) ==
    /\ pc[r] = "idle"
    /\ LET body == [NoArg EXCEPT !.text = text, !.k = k] IN
       /\ op' = [op EXCEPT ![r] = "search_document"]
       /\ arg' = [arg EXCEPT ![r] = body]
       /\ embedCalls' = [embedCalls EXCEPT ![r] = @ + 1]
       /\ \/ \E v \in EmbedReturns(SearchQuery(body).query) :
               /\ vector' = [vector EXCEPT ![r] = v]
               /\ pc' = [pc EXCEPT ![r] = "query"]
               /\ session' = [session EXCEPT ![r] = "open"]
               /\ resp' = resp
          \/ /\ vector' = vector
             /\ Finish(r, Error("EmbeddingError"), FALSE)
    /\ UNCHANGED <<tables, found, insertCalls, snapshot>>

\* POST /vector/search, from db.query(...) on: the ranked SELECT (a connection
\* is taken, the query vector bound, the statement run), db.close and the
\* list built from its rows.
search_document_query(r) ==
    /\ pc[r] = "query"
    /\ LET bound == BindVector(vector[r]) IN
       \/ /\ ~bound.ok
          /\ snapshot' = snapshot
          /\ Finish(r, Error("DimensionError"), FALSE)
       \/ /\ bound.ok
          /\ \E results \in OrderByDistanceLimit(documents, bound.value, Limit) :
                Finish(r, [NoResp EXCEPT !.status = "ok",
                                         !.rows = Rows(results, bound.value)], TRUE)
          /\ snapshot' = [snapshot EXCEPT ![r] = documents]
       \/ /\ snapshot' = snapshot
          /\ Finish(r, Error("StorageError"), FALSE)
    /\ UNCHANGED <<tables, op, arg, vector, found, embedCalls, insertCalls>>

\* The response has gone out; the worker slot and its locals are free again.
Return(r) ==
    /\ pc[r] = "done"
    /\ pc' = [pc EXCEPT ![r] = "idle"]
    /\ op' = [op EXCEPT ![r] = "none"]
    /\ arg' = [arg EXCEPT ![r] = NoArg]
    /\ session' = [session EXCEPT ![r] = "none"]
    /\ vector' = [vector EXCEPT ![r] = NULLVEC]
    /\ found' = [found EXCEPT ![r] = {}]
    /\ embedCalls' = [embedCalls EXCEPT ![r] = 0]
    /\ insertCalls' = [insertCalls EXCEPT ![r] = 0]
    /\ snapshot' = [snapshot EXCEPT ![r] = {}]
    /\ resp' = [resp EXCEPT ![r] = NoResp]
    /\ UNCHANGED tables

\* ----------------------------------------------------------- specifications
\* The sequences still have an id for every insert that may yet run.
ItemBudget == nextItemId <= MaxItems

DocBudget(cap) ==
    nextDocId + Cardinality({r \in Reqs : pc[r] = "insert"}) <= cap

\* The vector endpoints, requests served one at a time by worker slot 1.
Next ==
    \/ \E content \in Texts : DocBudget(MaxDocs) /\ add_document_embed(1, content)
    \/ add_document_commit(1)
    \/ \E text \in Texts, k \in Ks : search_document_embed(1, text, k)
    \/ search_document_query(1)
    \/ Return(1)

Spec == Init /\ [][Next]_vars

\* The vector endpoints, requests overlapping in NumReq worker slots.
NextConcurrent ==
    \E r \in Reqs :
        \/ \E content \in FewTexts :
              DocBudget(MaxFewDocs) /\ add_document_embed(r, content)
        \/ add_document_commit(r)
        \/ search_document_embed(r, OneText, NoK)
        \/ search_document_query(r)
        \/ Return(r)

SpecConcurrent == Init /\ [][NextConcurrent]_vars

\* All five handlers, requests served one at a time by worker slot 1.
NextService ==
    \/ \E item_id \in 1 .. MaxItems : delete_item_select(1, item_id)
    \/ delete_item_commit(1)
    \/ \E name \in ItemNames : ItemBudget /\ create_item(1, name)
    \/ get_items(1)
    \/ \E content \in FewTexts :
          DocBudget(MaxFewDocs) /\ add_document_embed(1, content)
    \/ add_document_commit(1)
    \/ \E text \in FewTexts : search_document_embed(1, text, NoK)
    \/ search_document_query(1)
    \/ Return(1)

SpecService == Init /\ [][NextService]_vars

\* ------------------------------------------------------------------ claims
Adds == {r \in Reqs : op[r] = "add_document"}
Searches == {r \in Reqs : op[r] = "search_document"}
Done(r) == pc[r] = "done"
Ok(r) == Done(r) /\ resp[r].status = "ok"
Failed(r) == Done(r) /\ resp[r].status # "ok"

\* Slot r takes the step that ends its handler.
Ends(r) == pc[r] # "done" /\ pc'[r] = "done"

Complete(d) ==
    d.content # NULL /\ d.embedding # NULLVEC /\ d.embedding.len = Dim

Dist(d, q) == CosineDistance(d.embedding, q)

\* C1: a step that ends add_document with an error (the embedding call or the
\* insert/commit failed) leaves the documents table and its id sequence as
\* they were: no record, whole or partial, is there because of the call.
C1_FailedIngestionWritesNothing ==
    [][\A r \in Reqs :
          (op'[r] = "add_document" /\ Ends(r) /\ resp'[r].status # "ok")
              => documents' = documents /\ nextDocId' = nextDocId]_vars

\* C1 witness: one ingestion has failed in its embedding call and one in its
\* commit after a successful embedding call.
C1_Witness ==
    \E a, b \in Adds :
        /\ Failed(a) /\ resp[a].status = "EmbeddingError" /\ insertCalls[a] = 0
        /\ Failed(b) /\ resp[b].status = "StorageError"
        /\ embedCalls[b] = 1 /\ insertCalls[b] = 1 /\ vector[b].len = Dim

\* C2: whatever the interleaving of ingestions and searches, every record of
\* the documents table has its content and an embedding of the collection's
\* dimension, and every row a search returns is the id and content of such a
\* record of the table the search read.
C2_NoHalfWrittenRecord ==
    /\ \A d \in documents : Complete(d)
    /\ \A r \in Searches : Ok(r) =>
          \A i \in 1 .. Len(resp[r].rows) :
              /\ resp[r].rows[i].content # NULL
              /\ \E d \in snapshot[r] :
                    /\ Complete(d)
                    /\ d.id = resp[r].rows[i].id
                    /\ d.content = resp[r].rows[i].content

\* C2 witness: a search that overlapped an ingestion has returned rows without
\* the record the ingestion has stored meanwhile.
C2_Witness ==
    \E a \in Adds, b \in Searches :
        /\ Ok(a) /\ Ok(b)
        /\ Len(resp[b].rows) > 0
        /\ resp[a].id \notin Ids(snapshot[b])
        /\ resp[a].id \in Ids(documents)

\* C3: rows of a search at equal distance come in ascending id order, and
\* two searches of the same collection with the same query vector return the
\* same sequence.
C3_TieBreakAscendingId ==
    /\ \A r \in Searches : Ok(r) =>
          \A i, j \in 1 .. Len(resp[r].rows) :
              (i < j /\ resp[r].rows[i].distance = resp[r].rows[j].distance)
                  => resp[r].rows[i].id < resp[r].rows[j].id
    /\ \A a, b \in Searches :
          (Ok(a) /\ Ok(b) /\ snapshot[a] = snapshot[b] /\ vector[a] = vector[b])
              => resp[a].rows = resp[b].rows

\* The k a search body asks for: 3 when it gives none.
RequestedK(r) == IF arg[r].k = NoK THEN 3 ELSE arg[r].k

Sorted(rows) ==
    \A i, j \in 1 .. Len(rows) : i < j => rows[i].distance <= rows[j].distance

\* C4: a search returns at most the k of its body (3 when not given), and
\* for k at least the collection size every stored record exactly once, each
\* with a non-negative distance, in ascending order of distance.
C4_TopK ==
    \A r \in Searches : Ok(r) =>
        LET rows == resp[r].rows IN
        /\ Len(rows) <= RequestedK(r)
        /\ RequestedK(r) >= Cardinality(snapshot[r]) =>
              /\ {rows[i].id : i \in 1 .. Len(rows)} = Ids(snapshot[r])
              /\ Len(rows) = Cardinality(snapshot[r])
              /\ \A i \in 1 .. Len(rows) : rows[i].distance >= 0
              /\ Sorted(rows)

\* The stored records other than d at distance 0 from q.
OthersAtZero(docs, d, q) == {e \in docs \ {d} : Dist(e, q) = 0}

Returned(r, d) ==
    \E i \in 1 .. Len(resp[r].rows) :
        resp[r].rows[i].id = d.id /\ resp[r].rows[i].distance = 0

\* C5 as claimed: a search whose query embeds to the vector of a stored
\* record returns that record at distance 0, the minimum, and first when no
\* other record is equally close.
C5_ReadYourWrites ==
    \A r \in Searches : Ok(r) =>
        \A d \in snapshot[r] : d.embedding = vector[r] =>
            /\ Returned(r, d)
            /\ \A i \in 1 .. Len(resp[r].rows) : resp[r].rows[i].distance >= 0
            /\ OthersAtZero(snapshot[r], d, vector[r]) = {}
                  => resp[r].rows[1].id = d.id

\* C5 as amended: the record is returned at distance 0 when fewer than 3
\* other stored records are at distance 0 from the query (else the limit of 3
\* may cut it); no row has a distance below 0, and the record is the first row
\* when no other record is equally close.
C5_ReadYourWritesWithinLimit ==
    \A r \in Searches : Ok(r) =>
        \A d \in snapshot[r] : d.embedding = vector[r] =>
            /\ Cardinality(OthersAtZero(snapshot[r], d, vector[r])) < Limit
                  => Returned(r, d)
            /\ \A i \in 1 .. Len(resp[r].rows) : resp[r].rows[i].distance >= 0
            /\ OthersAtZero(snapshot[r], d, vector[r]) = {}
                  => resp[r].rows[1].id = d.id

\* C5 witness: over a collection larger than the limit, a search returns
\* first, at distance 0, the record ingested last.
C5_Witness ==
    \E r \in Searches :
        /\ Ok(r)
        /\ Cardinality(snapshot[r]) > Limit
        /\ \E d \in snapshot[r] :
              /\ d.embedding = vector[r]
              /\ \A e \in snapshot[r] : e.id <= d.id
              /\ resp[r].rows[1].id = d.id
              /\ resp[r].rows[1].distance = 0

\* C6: the step of add_document or search_document that hands a vector of a
\* length other than 768 to the database never succeeds and leaves the
\* documents table as it was; it ends the handler with the dimension error,
\* whenever the database was in reach at all.
C6_WrongLengthRefused ==
    [][\A r \in Reqs :
          (pc[r] \in {"insert", "query"} /\ vector[r].len # Dim /\ Ends(r))
              => /\ resp'[r].status \in {"DimensionError", "StorageError"}
                 /\ resp'[r].rows = <<>>
                 /\ documents' = documents
                 /\ \A d \in documents' : d.embedding.len = Dim]_vars

\* C6 witness: an ingestion with a vector one too long has been refused while
\* the table holds a record.
C6_Witness ==
    \E r \in Adds :
        /\ Done(r) /\ resp[r].status = "DimensionError"
        /\ vector[r].len = Dim + 1
        /\ documents # {}

\* C7: an ingestion calls the embedding provider once; it runs at most one
\* insert, after the embedding call, none when the embedding call failed and
\* one otherwise, and a successful ingestion has stored exactly the pair of
\* its content and the vector the call returned.
C7_OneEmbedThenOneInsert ==
    \A r \in Adds :
        /\ embedCalls[r] = 1
        /\ pc[r] = "insert" => insertCalls[r] = 0
        /\ Done(r) =>
              insertCalls[r] = IF resp[r].status = "EmbeddingError" THEN 0 ELSE 1
        /\ Ok(r) => NewDocument(resp[r].id, arg[r].text, vector[r]) \in documents

\* C7 witness: an ingestion has ended on a storage failure after one
\* embedding call and one insert.
C7_Witness ==
    \E r \in Adds :
        /\ Failed(r) /\ resp[r].status = "StorageError"
        /\ embedCalls[r] = 1 /\ insertCalls[r] = 1

\* C8: over an empty documents table the ranked SELECT has one possible
\* result, the empty sequence, and a search that read an empty table has
\* returned the empty list.
C8_EmptyCollection ==
    \A r \in Searches :
        /\ (pc[r] = "query" /\ documents = {} /\ BindVector(vector[r]).ok)
              => {Rows(s, vector[r]) :
                     s \in OrderByDistanceLimit(documents, vector[r], Limit)} = {<<>>}
        /\ (Ok(r) /\ snapshot[r] = {}) => resp[r].rows = <<>>

\* C8 witness: a search of the empty table has returned, without error.
C8_Witness ==
    \E r \in Searches :
        Ok(r) /\ snapshot[r] = {} /\ documents = {} /\ resp[r].rows = <<>>

\* C9: no handler has ended with its session still open.
C9_SessionReleased ==
    \A r \in Reqs : Done(r) => session[r] # "open"

\* C10: a step never changes or removes a record of the documents table; the
\* table changes only by the commit of an add_document, which adds one record
\* under an id no record had, the id it returns.
C10_DocumentsOnlyGrow ==
    [][/\ documents \subseteq documents'
       /\ documents' # documents =>
             \E r \in Reqs :
                 /\ op[r] = "add_document" /\ pc[r] = "insert" /\ Ends(r)
                 /\ resp'[r].status = "ok"
                 /\ resp'[r].id \notin Ids(documents)
                 /\ \E d \in documents' :
                       /\ d.id = resp'[r].id
                       /\ documents' = documents \cup {d}]_vars

\* C10 witness: the table holds two records and an item, and an item has just
\* been deleted.
C10_Witness ==
    /\ Cardinality(documents) = 2
    /\ \E r \in Reqs : op[r] = "delete_item" /\ Ok(r)

====
